---- MODULE Spec2Model ----
(***************************************************************************)
(* Model of src/serial_command.py: the SerialCommand session that drives   *)
(* the TELLIE LED pulser over a serial link.                               *)
(*                                                                         *)
(* A byte string is a sequence of character codes ("g" is <<103>>).  A     *)
(* command is a sequence of units, each unit a byte string handed to one   *)
(* serial write.  A cache that holds None is the empty sequence, a cache   *)
(* that holds v is <<v>>.  Pulse delays are carried in microseconds, so    *)
(* 1.0 ms is 1000 and the bound 256.020 ms is 256020.                      *)
(***************************************************************************)
EXTENDS Integers, Sequences, FiniteSets, TLC

(* ---------------- protocol constants (serial_command.py 26-70) -------- *)
max_pulse_height == 16383
max_pulse_width == 16383
max_pulse_delay == 256020
max_trigger_delay == 1275
\* 127.5, carried in tenths
max_fibre_delay == 1275
max_pulse_number == 65025
max_pulse_number_upper == 255
max_pulse_number_lower == 255

cmd_fire_continuous == 97
cmd_fire_series == 103
buffer_end_sequence == 75
cmd_stop == 88
cmd_channel_clear == 67
cmd_ph_hi == 76
cmd_ph_lo == 77
cmd_ph_end == 80
cmd_pw_hi == 81
cmd_pw_lo == 82
cmd_pw_end == 83
cmd_pn_hi == 72
cmd_pn_lo == 71
cmd_pd == 117
cmd_td == 100
cmd_fd == 101
cmd_disable_ext_trig == 66
cmd_enable_ext_trig == 65
cmd_fire_ext_trig == 70

\* n of every "drain" read: self._serial.read(100)
ReadMax == 100
\* fire(): (self._current_pn * self._current_pd) < 500, in pulse * ms
FireThreshold == 500

(* ---------------- bounds of the model --------------------------------- *)
\* most bytes left in the receive buffer between two operations
MaxRx == 2
\* how far below 0 and above its maximum the inputs of a codec function go
Beyond == 2

\* bytes the device may emit that are no command code and no end marker ("?")
StrayBytes == {63}

(* ---------------- byte-string helpers --------------------------------- *)
None == <<>>

Min(a, b) == IF a < b THEN a ELSE b

Take(s, n) == SubSeq(s, 1, Min(n, Len(s)))

Drop(s, n) == SubSeq(s, Min(n, Len(s)) + 1, Len(s))

\* Python's  c in s  for a one-byte c
Contains(s, c) == \E i \in 1..Len(s) : s[i] = c

RECURSIVE Flatten(_)
\* buffer_check += c for c in command
Flatten(command) ==
  IF command = <<>> THEN <<>> ELSE Head(command) \o Flatten(Tail(command))

\* chr(x) raises ValueError outside range(256)
ChrOk(x) == x \in 0..255

(* ---------------- Parameter codec (serial_command.py 402-466) --------- *)
\* result of a codec function: err is "ok" or the exception it raises;
\* lookup says whether the function called the external lookup
CodecOk(command, buffer_check) ==
  [err |-> "ok", command |-> command, buffer_check |-> buffer_check,
   lookup |-> FALSE]

CodecErr(e) ==
  [err |-> e, command |-> <<>>, buffer_check |-> <<>>, lookup |-> FALSE]

\* the same result, reached after the call of the external lookup
Looked(c) == [c EXCEPT !.lookup = TRUE]

\* mutant of command_pulse_height: par >> 7 for par >> 8
command_pulse_height_shift7(par) ==
  IF par > max_pulse_height \/ par < 0 THEN CodecErr("InvalidParameter")
  ELSE LET hi == par \div 128
           lo == par % 256
       IN IF ~ChrOk(hi) \/ ~ChrOk(lo) THEN CodecErr("ValueError")
          ELSE CodecOk(<< <<cmd_ph_hi, hi>>, <<cmd_ph_lo, lo>>, <<cmd_ph_end>> >>,
                       <<cmd_ph_hi, cmd_ph_lo, cmd_ph_end>>)

command_pulse_height(par) ==
  IF par > max_pulse_height \/ par < 0 THEN CodecErr("InvalidParameter")
  ELSE LET hi == par \div 256
           lo == par % 256
       IN IF ~ChrOk(hi) \/ ~ChrOk(lo) THEN CodecErr("ValueError")
          ELSE CodecOk(<< <<cmd_ph_hi, hi>>, <<cmd_ph_lo, lo>>, <<cmd_ph_end>> >>,
                       <<cmd_ph_hi, cmd_ph_lo, cmd_ph_end>>)

command_pulse_width(par) ==
  IF par > max_pulse_width \/ par < 0 THEN CodecErr("InvalidParameter")
  ELSE LET hi == par \div 256
           lo == par % 256
       IN IF ~ChrOk(hi) \/ ~ChrOk(lo) THEN CodecErr("ValueError")
          ELSE CodecOk(<< <<cmd_pw_hi, hi>>, <<cmd_pw_lo, lo, cmd_pw_end>> >>,
                       <<cmd_pw_hi, cmd_pw_lo, cmd_pw_end>>)

\* parameters.pulse_number(par): the external lookup.  A count is exactly
\* representable when it is a product hi * lo of two bytes.
pulse_number(par) ==
  LET His == {h \in 1..max_pulse_number_upper :
                 par % h = 0 /\ par \div h <= max_pulse_number_lower}
  IN IF His = {} THEN [adjusted |-> TRUE, hi |-> max_pulse_number_upper,
                       lo |-> Min(max_pulse_number_lower,
                                  par \div max_pulse_number_upper)]
     ELSE LET h == CHOOSE x \in His : \A y \in His : x <= y
          IN [adjusted |-> FALSE, hi |-> h, lo |-> par \div h]

command_pulse_number(par) ==
  IF par > max_pulse_number \/ par < 0 THEN CodecErr("InvalidParameter")
  ELSE LET r == pulse_number(par)
       IN IF r.adjusted THEN Looked(CodecErr("InvalidParameter"))
          ELSE IF ~ChrOk(r.hi) \/ ~ChrOk(r.lo)
            THEN Looked(CodecErr("ValueError"))
          ELSE Looked(CodecOk(<< <<cmd_pn_hi, r.hi>>, <<cmd_pn_lo, r.lo>> >>,
                              <<cmd_pn_hi, cmd_pn_lo>>))

\* par in microseconds: ms = int(par), us = int((par - ms) * 250)
command_pulse_delay(par) ==
  IF par > max_pulse_delay \/ par < 0 THEN CodecErr("InvalidParameter")
  ELSE LET ms == par \div 1000
           us == ((par % 1000) * 250) \div 1000
       IN IF ~ChrOk(ms) \/ ~ChrOk(us) THEN CodecErr("ValueError")
          ELSE CodecOk(<< <<cmd_pd, ms>>, <<us>> >>, <<cmd_pd>>)

\* mutant of command_trigger_delay: the test par < 0 is missing
command_trigger_delay_nolow(par) ==
  IF par > max_trigger_delay THEN CodecErr("InvalidParameter")
  ELSE IF ~ChrOk(par \div 5) THEN CodecErr("ValueError")
  ELSE CodecOk(<< <<cmd_td, par \div 5>> >>, <<cmd_td>>)

command_trigger_delay(par) ==
  IF par > max_trigger_delay \/ par < 0 THEN CodecErr("InvalidParameter")
  ELSE IF ~ChrOk(par \div 5) THEN CodecErr("ValueError")
  ELSE CodecOk(<< <<cmd_td, par \div 5>> >>, <<cmd_td>>)

\* parameters.fibre_delay(par): the external lookup, par in tenths.  The
\* device setting counts steps of 0.5; a delay between two steps is adjusted.
fibre_delay(par) ==
  [adjusted |-> par % 5 # 0, setting |-> par \div 5]

command_fibre_delay(par) ==
  IF par > max_fibre_delay \/ par < 0 THEN CodecErr("InvalidParameter")
  ELSE LET r == fibre_delay(par)
       IN IF r.adjusted THEN Looked(CodecErr("InvalidParameter"))
          ELSE IF ~ChrOk(r.setting) THEN Looked(CodecErr("ValueError"))
          ELSE Looked(CodecOk(<< <<cmd_fd, r.setting>> >>, <<cmd_fd>>))

(* ---------------- state ----------------------------------------------- *)
VARIABLES
  firing,         \* self._firing
  force_setting,  \* self._force_setting
  current_ph,     \* self._current_ph
  current_pn,     \* self._current_pn
  current_pd,     \* self._current_pd (microseconds)
  current_td,     \* self._current_td
  rx,             \* bytes waiting in the port's receive buffer
  linkUp,         \* the port still answers; FALSE once the connection is lost
  last,           \* the operation that produced this state and what it did
  codec           \* a call of a codec function by itself: input and result

caches == <<current_ph, current_pn, current_pd, current_td>>
vars == <<firing, force_setting, current_ph, current_pn, current_pd,
          current_td, rx, linkUp, last, codec>>

(* ---------------- the serial port ------------------------------------- *)
\* one channel call as it appears in  last.io
W(bytes) == [t |-> "w", n |-> Len(bytes), d |-> bytes]
R(n, bytes) == [t |-> "r", n |-> n, d |-> bytes]

Writes(io) == SelectSeq(io, LAMBDA e : e.t = "w")
Reads(io) == SelectSeq(io, LAMBDA e : e.t = "r")

\* what the device may put on the line in answer to a command whose
\* command codes are  codes : nothing, the echo, the echo and an end
\* marker, or a byte that is neither
Responses(codes) ==
  {<<>>, codes, codes \o <<buffer_end_sequence>>} \cup {<<b>> : b \in StrayBytes}

\* outcome of a channel-level routine
Out(res, buf, io, detail) ==
  [res |-> res, rx |-> buf, io |-> io, detail |-> detail]

\* self._serial.read(n) on buffer buf
serial_read(buf, n) ==
  IF ~linkUp THEN Out("SerialError", buf, <<>>, <<>>)
  ELSE Out("ok", Drop(buf, n), <<R(n, Take(buf, n))>>, Take(buf, n))

\* _check_clear_buffer
check_clear_buffer(buf) ==
  LET rd == serial_read(buf, ReadMax)
  IN IF rd.res # "ok" THEN rd
     ELSE IF rd.detail # <<>> THEN Out("BufferNotClear", rd.rx, rd.io, rd.detail)
     ELSE rd

\* mutant of send_command: on a mismatch it raises at once, without the
\* drain, stop, clear, drain sequence
send_command_norecovery(buf, command, readout, buffer_check, resp) ==
  LET check == IF buffer_check = <<>> THEN Flatten(command) ELSE buffer_check
      wr == [i \in 1..Len(command) |-> W(command[i])]
      buf1 == buf \o resp
      buffer_read == Take(buf1, Len(check))
      rest == Drop(buf1, Len(check))
  IN IF ~linkUp THEN Out("ConnectionLost", buf, <<>>, <<>>)
     ELSE IF ~readout THEN Out("ok", buf1, wr, <<>>)
     ELSE IF buffer_read = check
       THEN Out("ok", rest, wr \o <<R(Len(check), buffer_read)>>, <<>>)
     ELSE Out("Desync", rest, wr \o <<R(Len(check), buffer_read)>>,
              <<buffer_read, <<>>, check>>)

\* _send_command(command, readout, buffer_check) with the device answering
\* resp after the writes; buffer_check <<>> is Python's None / ''
send_command(buf, command, readout, buffer_check, resp) ==
  LET check == IF buffer_check = <<>> THEN Flatten(command) ELSE buffer_check
      wr == [i \in 1..Len(command) |-> W(command[i])]
      buf1 == buf \o resp
      buffer_read == Take(buf1, Len(check))
      rest == Drop(buf1, Len(check))
      remainder == Take(rest, ReadMax)
      rest2 == Drop(rest, ReadMax)
  IN IF ~linkUp THEN Out("ConnectionLost", buf, <<>>, <<>>)
     ELSE IF ~readout THEN Out("ok", buf1, wr, <<>>)
     ELSE IF buffer_read = check
       THEN Out("ok", rest, wr \o <<R(Len(check), buffer_read)>>, <<>>)
     ELSE Out("Desync", Drop(rest2, ReadMax),
              wr \o <<R(Len(check), buffer_read), R(ReadMax, remainder),
                      W(<<cmd_stop>>), W(<<cmd_channel_clear>>),
                      R(ReadMax, Take(rest2, ReadMax))>>,
              <<buffer_read, remainder, check>>)

\* mutant of send_setting_command: the firing test is missing
send_setting_command_unguarded(buf, command, buffer_check, while_fire, resp) ==
  LET cl == check_clear_buffer(buf)
  IN IF cl.res # "ok" THEN cl
     ELSE LET s == send_command(cl.rx, command, TRUE, buffer_check, resp)
          IN Out(s.res, s.rx, cl.io \o s.io, s.detail)

\* _send_setting_command(command, buffer_check, while_fire)
send_setting_command(buf, command, buffer_check, while_fire, resp) ==
  IF firing
  THEN IF ~while_fire THEN Out("IllegalWhileFiring", buf, <<>>, <<>>)
       ELSE send_command(buf, command, FALSE, <<>>, resp)
  ELSE LET cl == check_clear_buffer(buf)
       IN IF cl.res # "ok" THEN cl
          ELSE LET s == send_command(cl.rx, command, TRUE, buffer_check, resp)
               IN Out(s.res, s.rx, cl.io \o s.io, s.detail)

(* ---------------- inputs ---------------------------------------------- *)
\* arguments tried for each setter: in-bound values, and values the codec
\* rejects (above the maximum, below zero, not representable)
PulseHeights == {300, 16384}
PulseNumbers == {10, 1000, 257}
PulseDelays == {500, 1000, 256021}
TriggerDelays == {5, -1}

(* ---------------- bookkeeping ----------------------------------------- *)
\* the record kept in  last : the call, its outcome, its channel traffic,
\* and the flags as they were when it was called.  eq records the test
\* par == self._current_xx of a setter; rep says that the step before was
\* the same call with the same argument and returned normally.
Log(op, arg, wf, res, io, detail, missing, eq) ==
  [op |-> op, arg |-> arg, wf |-> wf, res |-> res, io |-> io,
   detail |-> detail, missing |-> missing, eq |-> eq,
   firing0 |-> firing, force0 |-> force_setting,
   rep |-> (last.op = op /\ last.arg = arg /\ last.res = "ok")]

\* effect of a firing-family call on the session
Eff(res, f, fs, buf, io, detail, missing) ==
  [res |-> res, firing |-> f, force |-> fs, rx |-> buf, io |-> io,
   detail |-> detail, missing |-> missing]

\* no call of a codec function by itself
NoCall == [fn |-> "none", par |-> 0, st |-> "idle", out |-> CodecErr("none")]

\* the session after __init__
SessionInit ==
  /\ firing = FALSE
  /\ force_setting = FALSE
  /\ current_ph = None
  /\ current_pn = None
  /\ current_pd = None
  /\ current_td = None
  /\ rx = <<>>
  /\ linkUp = TRUE
  /\ last = [op |-> "init", arg |-> 0, wf |-> FALSE, res |-> "ok", io |-> <<>>,
             detail |-> <<>>, missing |-> <<>>, eq |-> FALSE,
             firing0 |-> FALSE, force0 |-> FALSE, rep |-> FALSE]

Init == SessionInit /\ codec = NoCall

(* ---------------- setters (serial_command.py 333-391) ----------------- *)
\* mutant of setting: the cache is never consulted
setting_uncached(par, cur, c) ==
  IF c.err # "ok" THEN {Out(c.err, rx, <<>>, <<>>)}
  ELSE {send_setting_command(rx, c.command, c.buffer_check, FALSE, resp) :
          resp \in Responses(c.buffer_check)}

\* mutant of setting: force_setting is not read
setting_unforced(par, cur, c) ==
  IF <<par>> = cur THEN {Out("ok", rx, <<>>, <<>>)}
  ELSE IF c.err # "ok" THEN {Out(c.err, rx, <<>>, <<>>)}
  ELSE {send_setting_command(rx, c.command, c.buffer_check, FALSE, resp) :
          resp \in Responses(c.buffer_check)}

\* the body shared by set_pulse_height, set_pulse_number, set_pulse_delay
\* and set_trigger_delay: cur is the cache, c the codec's result for par
setting(par, cur, c) ==
  IF <<par>> = cur /\ ~force_setting THEN {Out("ok", rx, <<>>, <<>>)}
  ELSE IF c.err # "ok" THEN {Out(c.err, rx, <<>>, <<>>)}
  ELSE {send_setting_command(rx, c.command, c.buffer_check, FALSE, resp) :
          resp \in Responses(c.buffer_check)}

set_pulse_height(par) ==
  \E o \in setting(par, current_ph, command_pulse_height(par)) :
    /\ Len(o.rx) <= MaxRx
    /\ current_ph' = IF o.res = "ok" THEN <<par>> ELSE current_ph
    /\ rx' = o.rx
    /\ last' = Log("set_pulse_height", par, FALSE, o.res, o.io, o.detail, <<>>,
                   <<par>> = current_ph)
    /\ UNCHANGED <<codec, firing, force_setting, current_pn, current_pd, current_td,
                   linkUp>>

set_pulse_number(par) ==
  \E o \in setting(par, current_pn, command_pulse_number(par)) :
    /\ Len(o.rx) <= MaxRx
    /\ current_pn' = IF o.res = "ok" THEN <<par>> ELSE current_pn
    /\ rx' = o.rx
    /\ last' = Log("set_pulse_number", par, FALSE, o.res, o.io, o.detail, <<>>,
                   <<par>> = current_pn)
    /\ UNCHANGED <<codec, firing, force_setting, current_ph, current_pd, current_td,
                   linkUp>>

\* mutant of set_pulse_delay: the cache is assigned before the send, so
\* that it changes even when the send raises
set_pulse_delay_eager(par) ==
  \E o \in setting(par, current_pd, command_pulse_delay(par)) :
    /\ Len(o.rx) <= MaxRx
    /\ current_pd' = IF o.res \in {"ok", "Desync", "BufferNotClear"}
                       THEN <<par>> ELSE current_pd
    /\ rx' = o.rx
    /\ last' = Log("set_pulse_delay", par, FALSE, o.res, o.io, o.detail, <<>>,
                   <<par>> = current_pd)
    /\ UNCHANGED <<codec, firing, force_setting, current_ph, current_pn, current_td,
                   linkUp>>

set_pulse_delay(par) ==
  \E o \in setting(par, current_pd, command_pulse_delay(par)) :
    /\ Len(o.rx) <= MaxRx
    /\ current_pd' = IF o.res = "ok" THEN <<par>> ELSE current_pd
    /\ rx' = o.rx
    /\ last' = Log("set_pulse_delay", par, FALSE, o.res, o.io, o.detail, <<>>,
                   <<par>> = current_pd)
    /\ UNCHANGED <<codec, firing, force_setting, current_ph, current_pn, current_td,
                   linkUp>>

set_trigger_delay(par) ==
  \E o \in setting(par, current_td, command_trigger_delay(par)) :
    /\ Len(o.rx) <= MaxRx
    /\ current_td' = IF o.res = "ok" THEN <<par>> ELSE current_td
    /\ rx' = o.rx
    /\ last' = Log("set_trigger_delay", par, FALSE, o.res, o.io, o.detail, <<>>,
                   <<par>> = current_td)
    /\ UNCHANGED <<codec, firing, force_setting, current_ph, current_pn, current_pd,
                   linkUp>>

(* ---------------- readiness (serial_command.py 307-331) --------------- *)
\* mutant of not_set: the commented-out test of the trigger delay is live
not_set_with_td ==
  (IF current_ph = None THEN <<"Pulse height">> ELSE <<>>)
  \o (IF current_pn = None THEN <<"Pulse number">> ELSE <<>>)
  \o (IF current_pd = None THEN <<"Pulse delay">> ELSE <<>>)
  \o (IF current_td = None THEN <<"Trigger delay">> ELSE <<>>)

\* the list not_set that check_ready builds
not_set ==
  (IF current_ph = None THEN <<"Pulse height">> ELSE <<>>)
  \o (IF current_pn = None THEN <<"Pulse number">> ELSE <<>>)
  \o (IF current_pd = None THEN <<"Pulse delay">> ELSE <<>>)

check_ready ==
  /\ last' = Log("check_ready", 0, FALSE,
                 IF not_set # <<>> THEN "IncompleteConfiguration" ELSE "ok",
                 <<>>, <<>>, not_set, FALSE)
  /\ UNCHANGED <<codec, firing, force_setting, current_ph, current_pn, current_pd,
                 current_td, rx, linkUp>>

clear_settings ==
  /\ current_ph' = None
  /\ current_pn' = None
  /\ current_pd' = None
  /\ current_td' = None
  /\ last' = Log("clear_settings", 0, FALSE, "ok", <<>>, <<>>, <<>>, FALSE)
  /\ UNCHANGED <<codec, firing, force_setting, rx, linkUp>>

(* ---------------- firing state (serial_command.py 205-305) ------------ *)
\* mutant of reentry: the else branch that raises is missing
reentry_silent(buf) ==
  LET rd == serial_read(buf, ReadMax)
  IN IF rd.res # "ok"
       THEN Eff(rd.res, firing, force_setting, buf, <<>>, <<>>, <<>>)
     ELSE Eff("ok", IF Contains(rd.detail, buffer_end_sequence)
                      THEN FALSE ELSE firing,
              force_setting, rd.rx, rd.io, <<>>, <<>>)

\* if _buffer_end_sequence in self.read_buffer(): self._firing = False
\* else: raise "Cannot fire, already in firing mode"
reentry(buf) ==
  LET rd == serial_read(buf, ReadMax)
  IN IF rd.res # "ok"
       THEN Eff(rd.res, firing, force_setting, buf, <<>>, <<>>, <<>>)
     ELSE IF Contains(rd.detail, buffer_end_sequence)
       THEN Eff("ok", FALSE, force_setting, rd.rx, rd.io, <<>>, <<>>)
     ELSE Eff("AlreadyFiring", firing, force_setting, rd.rx, rd.io, <<>>, <<>>)

\* a call that skips the re-entry check
no_reentry == Eff("ok", firing, force_setting, rx, <<>>, <<>>, <<>>)

\* mutant of short_train: <= for <
short_train_le == current_pn[1] * current_pd[1] <= FireThreshold * 1000

\* (self._current_pn * self._current_pd) < 500, the delay in microseconds
short_train == current_pn[1] * current_pd[1] < FireThreshold * 1000

\* mutant of fire_effects: self._force_setting = False sits in the else
\* branch, so that a short train does not clear the flag
fire_effects_long_only(while_fire) ==
  LET re == IF firing /\ ~while_fire THEN reentry(rx) ELSE no_reentry
  IN IF re.res # "ok" THEN {re}
     ELSE IF not_set # <<>>
       THEN {Eff("IncompleteConfiguration", re.firing, force_setting, re.rx,
                 re.io, <<>>, not_set)}
     ELSE {LET s == send_command(re.rx, << <<cmd_fire_series>> >>, TRUE,
                      IF short_train
                        THEN <<cmd_fire_series, buffer_end_sequence>>
                        ELSE <<cmd_fire_series>>, resp)
           IN IF s.res # "ok"
                THEN Eff(s.res, re.firing, force_setting, s.rx, re.io \o s.io,
                         s.detail, <<>>)
                ELSE Eff("ok", IF short_train THEN re.firing ELSE TRUE,
                         IF short_train THEN force_setting ELSE FALSE,
                         s.rx, re.io \o s.io, <<>>, <<>>)
           : resp \in Responses(<<cmd_fire_series>>)}

\* fire(while_fire): the effects it may have, one per device response
fire_effects(while_fire) ==
  LET re == IF firing /\ ~while_fire THEN reentry(rx) ELSE no_reentry
  IN IF re.res # "ok" THEN {re}
     ELSE IF not_set # <<>>
       THEN {Eff("IncompleteConfiguration", re.firing, force_setting, re.rx,
                 re.io, <<>>, not_set)}
     ELSE {LET s == send_command(re.rx, << <<cmd_fire_series>> >>, TRUE,
                      IF short_train
                        THEN <<cmd_fire_series, buffer_end_sequence>>
                        ELSE <<cmd_fire_series>>, resp)
           IN IF s.res # "ok"
                THEN Eff(s.res, re.firing, force_setting, s.rx, re.io \o s.io,
                         s.detail, <<>>)
                ELSE Eff("ok", IF short_train THEN re.firing ELSE TRUE, FALSE,
                         s.rx, re.io \o s.io, <<>>, <<>>)
           : resp \in Responses(<<cmd_fire_series>>)}

\* a firing-family command sent without readout: fire_sequence (after
\* check_ready), fire_continuous and trigger_single (after the re-entry check)
fire_no_readout(re, cmd, clears_force) ==
  IF re.res # "ok" THEN {re}
  ELSE {LET s == send_command(re.rx, << <<cmd>> >>, FALSE, <<>>, resp)
        IN IF s.res # "ok"
             THEN Eff(s.res, re.firing, force_setting, s.rx, re.io \o s.io,
                      s.detail, <<>>)
             ELSE Eff("ok", TRUE, IF clears_force THEN FALSE ELSE force_setting,
                      s.rx, re.io \o s.io, <<>>, <<>>)
        : resp \in Responses(<<cmd>>)}

\* mutant of fire_sequence_effects: check_ready() is not called
fire_sequence_effects_unchecked(while_fire) ==
  fire_no_readout(no_reentry, cmd_fire_series, TRUE)

\* fire_sequence(while_fire): while_fire is not read
fire_sequence_effects(while_fire) ==
  IF not_set # <<>>
    THEN {Eff("IncompleteConfiguration", firing, force_setting, rx, <<>>, <<>>,
              not_set)}
  ELSE fire_no_readout(no_reentry, cmd_fire_series, TRUE)

fire_continuous_effects ==
  fire_no_readout(IF firing THEN reentry(rx) ELSE no_reentry,
                  cmd_fire_continuous, TRUE)

trigger_single_effects ==
  fire_no_readout(IF firing THEN reentry(rx) ELSE no_reentry,
                  cmd_fire_ext_trig, FALSE)

\* the session takes effect e of call op
Apply(op, wf, e) ==
  /\ Len(e.rx) <= MaxRx
  /\ firing' = e.firing
  /\ force_setting' = e.force
  /\ rx' = e.rx
  /\ last' = Log(op, 0, wf, e.res, e.io, e.detail, e.missing, FALSE)
  /\ UNCHANGED <<codec, current_ph, current_pn, current_pd, current_td, linkUp>>

fire(while_fire) == \E e \in fire_effects(while_fire) : Apply("fire", while_fire, e)

fire_sequence(while_fire) ==
  \E e \in fire_sequence_effects(while_fire) : Apply("fire_sequence", while_fire, e)

fire_continuous == \E e \in fire_continuous_effects : Apply("fire_continuous", FALSE, e)

trigger_single == \E e \in trigger_single_effects : Apply("trigger_single", FALSE, e)

\* mutant of check_firing_effect: any byte read ends the firing mode
check_firing_effect_any ==
  IF ~firing THEN no_reentry
  ELSE LET rd == serial_read(rx, ReadMax)
       IN IF rd.res # "ok" THEN Eff(rd.res, firing, force_setting, rx, <<>>, <<>>, <<>>)
          ELSE Eff("ok", IF rd.detail # <<>> THEN FALSE ELSE firing,
                   force_setting, rd.rx, rd.io, <<>>, <<>>)

\* check_firing()
check_firing_effect ==
  IF ~firing THEN no_reentry
  ELSE LET rd == serial_read(rx, ReadMax)
       IN IF rd.res # "ok" THEN Eff(rd.res, firing, force_setting, rx, <<>>, <<>>, <<>>)
          ELSE Eff("ok", IF Contains(rd.detail, buffer_end_sequence)
                           THEN FALSE ELSE firing,
                   force_setting, rd.rx, rd.io, <<>>, <<>>)

check_firing == Apply("check_firing", FALSE, check_firing_effect)

\* read_buffer(n=100)
read_buffer_effect ==
  LET rd == serial_read(rx, ReadMax)
  IN Eff(rd.res, firing, force_setting, rd.rx, rd.io, <<>>, <<>>)

read_buffer == Apply("read_buffer", FALSE, read_buffer_effect)

\* mutant of stop_effects: self._firing = False is missing
stop_effects_keep ==
  {LET s == send_command(rx, << <<cmd_stop>> >>, FALSE, <<>>, resp)
   IN IF s.res # "ok"
        THEN Eff(s.res, firing, force_setting, s.rx, s.io, <<>>, <<>>)
        ELSE LET rd == serial_read(s.rx, ReadMax)
             IN IF rd.res # "ok"
                  THEN Eff(rd.res, firing, force_setting, s.rx, s.io, <<>>, <<>>)
                  ELSE Eff("ok", firing, force_setting, rd.rx, s.io \o rd.io,
                           <<>>, <<>>)
   : resp \in Responses(<<cmd_stop>>)}

\* stop(): the stop command without readout, one drain, then Idle
stop_effects ==
  {LET s == send_command(rx, << <<cmd_stop>> >>, FALSE, <<>>, resp)
   IN IF s.res # "ok"
        THEN Eff(s.res, firing, force_setting, s.rx, s.io, <<>>, <<>>)
        ELSE LET rd == serial_read(s.rx, ReadMax)
             IN IF rd.res # "ok"
                  THEN Eff(rd.res, firing, force_setting, s.rx, s.io, <<>>, <<>>)
                  ELSE Eff("ok", FALSE, force_setting, rd.rx, s.io \o rd.io,
                           <<>>, <<>>)
   : resp \in Responses(<<cmd_stop>>)}

stop == \E e \in stop_effects : Apply("stop", FALSE, e)

\* a command sent with readout and the default echo, no state change:
\* enable_external_trig past its guard, disable_external_trigger
echoed(cmd) ==
  {LET s == send_command(rx, << <<cmd>> >>, TRUE, <<>>, resp)
   IN Eff(s.res, firing, force_setting, s.rx, s.io, s.detail, <<>>)
   : resp \in Responses(<<cmd>>)}

\* mutant of enable_external_trig_effects: the guard on _firing is missing
enable_external_trig_effects_unguarded(while_fire) ==
  echoed(cmd_enable_ext_trig)

\* enable_external_trig(while_fire)
enable_external_trig_effects(while_fire) ==
  IF firing /\ ~while_fire
    THEN {Eff("IllegalWhileFiring", firing, force_setting, rx, <<>>, <<>>, <<>>)}
  ELSE echoed(cmd_enable_ext_trig)

enable_external_trig(while_fire) ==
  \E e \in enable_external_trig_effects(while_fire) :
    Apply("enable_external_trig", while_fire, e)

disable_external_trigger_effects == echoed(cmd_disable_ext_trig)

disable_external_trigger ==
  \E e \in disable_external_trigger_effects : Apply("disable_external_trigger", FALSE, e)

(* ---------------- the environment ------------------------------------- *)
\* the channel-selection collaborator changes the channel context
ChannelChange ==
  /\ force_setting' = TRUE
  /\ last' = Log("channel_change", 0, FALSE, "ok", <<>>, <<>>, <<>>, FALSE)
  /\ UNCHANGED <<codec, firing, current_ph, current_pn, current_pd, current_td, rx,
                 linkUp>>

\* the device puts a byte on the line between two operations
DeviceEmit(b) ==
  /\ linkUp
  /\ Len(rx) < MaxRx
  /\ rx' = Append(rx, b)
  /\ last' = Log("device_emit", b, FALSE, "ok", <<>>, <<>>, <<>>, FALSE)
  /\ UNCHANGED <<codec, firing, force_setting, current_ph, current_pn, current_pd,
                 current_td, linkUp>>

\* the connection is lost: from now on serial write and read raise
LinkLost ==
  /\ linkUp
  /\ linkUp' = FALSE
  /\ last' = Log("link_lost", 0, FALSE, "ok", <<>>, <<>>, <<>>, FALSE)
  /\ UNCHANGED <<codec, firing, force_setting, current_ph, current_pn, current_pd,
                 current_td, rx>>

Next ==
  \/ \E par \in PulseHeights : set_pulse_height(par)
  \/ \E par \in PulseNumbers : set_pulse_number(par)
  \/ \E par \in PulseDelays : set_pulse_delay(par)
  \/ \E par \in TriggerDelays : set_trigger_delay(par)
  \/ check_ready
  \/ clear_settings
  \/ \E wf \in BOOLEAN : fire(wf)
  \/ \E wf \in BOOLEAN : fire_sequence(wf)
  \/ fire_continuous
  \/ trigger_single
  \/ check_firing
  \/ read_buffer
  \/ stop
  \/ \E wf \in BOOLEAN : enable_external_trig(wf)
  \/ disable_external_trigger
  \/ ChannelChange
  \/ \E b \in StrayBytes \cup {buffer_end_sequence} : DeviceEmit(b)
  \/ LinkLost

Spec == Init /\ [][Next]_vars

(* ---------------- the codec functions by themselves ------------------ *)
CodecFns == {"pulse_height", "pulse_width", "pulse_number", "pulse_delay",
             "trigger_delay", "fibre_delay"}

\* the largest input a codec function accepts
MaxOf(fn) ==
  CASE fn = "pulse_height" -> max_pulse_height
    [] fn = "pulse_width" -> max_pulse_width
    [] fn = "pulse_number" -> max_pulse_number
    [] fn = "pulse_delay" -> max_pulse_delay
    [] fn = "trigger_delay" -> max_trigger_delay
    [] fn = "fibre_delay" -> max_fibre_delay

\* the inputs tried: every value from below 0 to above the maximum
CodecInputs(fn) == (0 - Beyond)..(MaxOf(fn) + Beyond)

Encode(fn, par) ==
  CASE fn = "pulse_height" -> command_pulse_height(par)
    [] fn = "pulse_width" -> command_pulse_width(par)
    [] fn = "pulse_number" -> command_pulse_number(par)
    [] fn = "pulse_delay" -> command_pulse_delay(par)
    [] fn = "trigger_delay" -> command_trigger_delay(par)
    [] fn = "fibre_delay" -> command_fibre_delay(par)

CodecInit ==
  /\ SessionInit
  /\ \E fn \in CodecFns : \E par \in CodecInputs(fn) :
       codec = [fn |-> fn, par |-> par, st |-> "call", out |-> CodecErr("pending")]

\* the function is called on its input
CodecCall ==
  /\ codec.st = "call"
  /\ codec' = [codec EXCEPT !.st = "done", !.out = Encode(codec.fn, codec.par)]
  /\ UNCHANGED <<firing, force_setting, current_ph, current_pn, current_pd,
                 current_td, rx, linkUp, last>>

CodecNext == CodecCall

CodecSpec == CodecInit /\ [][CodecNext]_vars

(* ====================================================================== *)
(* Properties                                                             *)
(* ====================================================================== *)
Setters == {"set_pulse_height", "set_pulse_number", "set_pulse_delay",
            "set_trigger_delay"}

\* the codec's result for the argument of setter call op
Encoded(op, arg) ==
  CASE op = "set_pulse_height" -> command_pulse_height(arg)
    [] op = "set_pulse_number" -> command_pulse_number(arg)
    [] op = "set_pulse_delay" -> command_pulse_delay(arg)
    [] op = "set_trigger_delay" -> command_trigger_delay(arg)

\* the cache that setter call op writes
CacheOf(op) ==
  CASE op = "set_pulse_height" -> current_ph
    [] op = "set_pulse_number" -> current_pn
    [] op = "set_pulse_delay" -> current_pd
    [] op = "set_trigger_delay" -> current_td

\* the call began with a read of up to 100 bytes that held the end marker
SawMarkerFirst ==
  /\ last.io # <<>>
  /\ last.io[1].t = "r"
  /\ last.io[1].n = ReadMax
  /\ Contains(last.io[1].d, buffer_end_sequence)

\* the last channel call of the operation
LastIo == last.io[Len(last.io)]

\* cached pulse number times cached pulse delay, in pulse * microseconds
Product == current_pn[1] * current_pd[1]

C2_ShortTrainIdle ==
  (last.op = "fire" /\ last.res = "ok" /\ Product < 500 * 1000) =>
    /\ ~firing
    /\ LastIo = R(2, <<cmd_fire_series, buffer_end_sequence>>)

(* ---- C3 ---- *)
\* C3: after fire() returns normally with pulse number * pulse delay >= 500,
\* the firing flag is true and the echo verified was the single byte "g".
C3_LongTrainFiring ==
  (last.op = "fire" /\ last.res = "ok" /\ Product >= 500 * 1000) =>
    /\ firing
    /\ Writes(last.io) = <<W(<<cmd_fire_series>>)>>
    /\ LastIo = R(1, <<cmd_fire_series>>)

\* a long train at the threshold itself: 1000 pulses, 0.5 ms apart
C3_Witness ==
  /\ last.op = "fire"
  /\ last.res = "ok"
  /\ Product = 500 * 1000
  /\ firing
  /\ ~last.firing0

(* ---- C4 ---- *)
\* C4 as stated: stop() returns normally from any state, leaves the firing
\* flag false, writes only the stop command, verifies no echo and drains
\* at most 100 bytes.
C4_AsStated ==
  last.op = "stop" =>
    /\ last.res = "ok"
    /\ ~firing
    /\ Writes(last.io) = <<W(<<cmd_stop>>)>>
    /\ Len(Reads(last.io)) = 1
    /\ LastIo.t = "r" /\ LastIo.n = 100 /\ Len(LastIo.d) <= 100

\* C4 amended: while the connection is up, stop() returns normally from any
\* state, leaves the firing flag false, and its channel traffic is the
\* write of the stop command followed by one read of at most 100 bytes;
\* once the connection is lost it fails with the lost-connection error,
\* reads nothing and leaves the firing flag as it was.
C4_Stop ==
  last.op = "stop" =>
    IF linkUp
      THEN /\ last.res = "ok"
           /\ ~firing
           /\ Len(last.io) = 2
           /\ last.io[1] = W(<<cmd_stop>>)
           /\ last.io[2].t = "r" /\ last.io[2].n = 100
           /\ Len(last.io[2].d) <= 100
      ELSE /\ last.res = "ConnectionLost"
           /\ last.io = <<>>
           /\ firing = last.firing0

C4_Witness ==
  /\ last.op = "stop"
  /\ last.firing0
  /\ force_setting
  /\ last.res = "ok"
  /\ ~firing
  /\ Len(last.io[2].d) = MaxRx + 1

(* ---- C5 ---- *)
\* C5: fire() without override, fire_continuous() and trigger_single(),
\* called with the firing flag true, first read the buffer once; without an
\* end marker in the bytes read the call fails with the already-firing
\* error, writes nothing and leaves the flag true; with one the flag is
\* cleared and the call goes on (to check_ready for fire, to the write of
\* its command for the other two).
C5_Reentry ==
  ( /\ last.op \in {"fire", "fire_continuous", "trigger_single"}
    /\ last.firing0
    /\ ~last.wf
    /\ linkUp ) =>
    /\ last.io # <<>>
    /\ last.io[1].t = "r" /\ last.io[1].n = 100
    /\ \A i \in 2..Len(last.io) : last.io[i].n # 100 \/ last.res = "Desync"
    /\ IF ~Contains(last.io[1].d, buffer_end_sequence)
         THEN /\ last.res = "AlreadyFiring"
              /\ Len(last.io) = 1
              /\ firing
         ELSE /\ last.res # "AlreadyFiring"
              /\ last.res # "ok" => ~firing
              /\ last.op = "fire" =>
                   IF not_set # <<>>
                     THEN last.res = "IncompleteConfiguration" /\ Len(last.io) = 1
                     ELSE last.io[2] = W(<<cmd_fire_series>>)
              /\ last.op = "fire_continuous" =>
                   /\ last.io = <<last.io[1], W(<<cmd_fire_continuous>>)>>
                   /\ last.res = "ok" /\ firing
              /\ last.op = "trigger_single" =>
                   /\ last.io = <<last.io[1], W(<<cmd_fire_ext_trig>>)>>
                   /\ last.res = "ok" /\ firing

\* the buffer held bytes, none of them the end marker
C5_Witness ==
  /\ last.op \in {"fire", "fire_continuous", "trigger_single"}
  /\ last.firing0
  /\ ~last.wf
  /\ last.res = "AlreadyFiring"
  /\ last.io[1].d # <<>>

(* ---- C6 ---- *)
\* C6: fire_sequence() called with the firing flag true and no end marker
\* in the receive buffer fails with the already-firing error and writes no
\* command (stated for a session whose three required settings are cached,
\* so that nothing but the re-entry check can stop the call).
C6_SequenceReentry ==
  [][ ( /\ firing
        /\ linkUp
        /\ not_set = <<>>
        /\ ~Contains(rx, buffer_end_sequence)
        /\ last'.op = "fire_sequence" ) =>
      ( /\ last'.res = "AlreadyFiring"
        /\ Writes(last'.io) = <<>> ) ]_vars

(* ---- C7 ---- *)
\* C7: an operation called with the firing flag true writes to the channel
\* only if it is stop(), or fire() or enable_external_trig() called with
\* the override, or a firing-family call that first saw the end marker (so
\* that the flag was false when it wrote); no public operation of the
\* class takes the while-fire path of _send_setting_command.
C7_WritesWhileFiring ==
  (last.firing0 /\ Writes(last.io) # <<>>) =>
    \/ last.op = "stop"
    \/ last.op \in {"fire", "enable_external_trig"} /\ last.wf
    \/ /\ last.op \in {"fire", "fire_continuous", "trigger_single"}
       /\ SawMarkerFirst

(* ---- C8 ---- *)
\* C8: the firing flag goes from true to false only in stop(), or in
\* check_firing() or the re-entry check of fire() (without override),
\* fire_continuous() or trigger_single() when the read of up to 100 bytes
\* they begin with holds the end marker; and check_firing() called with the
\* flag false does no channel I/O.
C8_FiringCleared ==
  /\ (last.firing0 /\ ~firing) =>
       \/ last.op = "stop" /\ last.res = "ok"
       \/ /\ last.op \in {"check_firing", "fire", "fire_continuous",
                          "trigger_single"}
          /\ ~last.wf
          /\ SawMarkerFirst
  /\ (last.op = "check_firing" /\ ~last.firing0) =>
       last.io = <<>> /\ ~firing

\* the re-entry check of fire() cleared the flag and the call then failed
C8_Witness ==
  /\ last.op = "fire"
  /\ last.firing0
  /\ ~firing
  /\ last.res = "IncompleteConfiguration"

(* ---- C9 ---- *)
\* C9: a plain setter called in state Idle with force_setting false,
\* directly after the same call with the same argument returned normally,
\* does no channel write and no read, returns normally and leaves its
\* cache at the value it had.
C9_RepeatedSetterSkips ==
  (last.op \in Setters /\ last.rep /\ ~last.firing0 /\ ~last.force0) =>
    /\ last.io = <<>>
    /\ last.res = "ok"
    /\ last.eq
    /\ CacheOf(last.op) = <<last.arg>>

C9_Witness ==
  /\ last.op = "set_pulse_number"
  /\ last.rep
  /\ ~last.firing0
  /\ ~last.force0
  /\ last.io = <<>>
  /\ rx = <<>>

(* ---- C10 ---- *)
\* C10: with force_setting true and the connection up, a plain setter
\* called in state Idle with the cached value begins with the buffer-clear
\* read of up to 100 bytes; if that read is empty it writes the codec's
\* command units in order and reads the echo; and force_setting is still
\* true afterwards, so the next such call does the same.
C10_ForcedSetterSends ==
  ( /\ last.op \in Setters
    /\ last.force0
    /\ ~last.firing0
    /\ last.eq
    /\ linkUp ) =>
    LET c == Encoded(last.op, last.arg)
        n == Len(c.command)
    IN /\ c.err = "ok"
       /\ force_setting
       /\ last.io # <<>>
       /\ last.io[1].t = "r" /\ last.io[1].n = 100
       /\ IF last.io[1].d # <<>>
            THEN last.res = "BufferNotClear" /\ Len(last.io) = 1
            ELSE /\ Len(last.io) >= n + 2
                 /\ \A i \in 1..n : last.io[i + 1] = W(c.command[i])
                 /\ last.io[n + 2].t = "r"
                 /\ last.io[n + 2].n = Len(c.buffer_check)
                 /\ last.res = IF last.io[n + 2].d = c.buffer_check
                                 THEN "ok" ELSE "Desync"
                 /\ last.res = "ok" => Len(last.io) = n + 2

\* the forced re-send of an equal value, done twice in a row
C10_Witness ==
  /\ last.op = "set_trigger_delay"
  /\ last.force0
  /\ ~last.firing0
  /\ last.eq
  /\ last.rep
  /\ last.res = "ok"
  /\ Len(Writes(last.io)) = 1

(* ---- C11 ---- *)
\* the operations that send with readout
EchoOps == Setters \cup {"fire", "enable_external_trig",
                         "disable_external_trigger"}

\* the units the last operation sends
CommandOf ==
  CASE last.op \in Setters -> Encoded(last.op, last.arg).command
    [] last.op = "fire" -> << <<103>> >>
    [] last.op = "enable_external_trig" -> << <<65>> >>
    [] last.op = "disable_external_trigger" -> << <<66>> >>

\* the echo the last operation expects
ExpectedEcho ==
  CASE last.op \in Setters -> Encoded(last.op, last.arg).buffer_check
    [] last.op = "fire" ->
         IF Product < 500 * 1000 THEN <<103, 75>> ELSE <<103>>
    [] last.op = "enable_external_trig" -> <<65>>
    [] last.op = "disable_external_trigger" -> <<66>>

\* position in  last.io  of the first write
RECURSIVE FirstWrite(_)
FirstWrite(i) ==
  IF i > Len(last.io) THEN 0
  ELSE IF last.io[i].t = "w" THEN i ELSE FirstWrite(i + 1)

\* C11: when an echo-verified send reads bytes that differ from the expected
\* echo, the channel traffic that follows is exactly read(100),
\* write("X"), write("C"), read(100), and the call then fails with the
\* desync error carrying the bytes read, the bytes of the first drain and
\* the expected echo; the command is written once; a matching echo ends
\* the call with no further traffic.
C11_DesyncRecovery ==
  (last.op \in EchoOps /\ Writes(last.io) # <<>>) =>
    LET k == FirstWrite(1) + Len(CommandOf)
        n == Len(last.io)
    IN /\ n >= k
       /\ \A i \in 1..Len(CommandOf) :
            last.io[FirstWrite(1) + i - 1] = W(CommandOf[i])
       /\ last.io[k].t = "r" /\ last.io[k].n = Len(ExpectedEcho)
       /\ IF last.io[k].d = ExpectedEcho
            THEN last.res = "ok" /\ n = k
            ELSE /\ last.res = "Desync"
                 /\ n = k + 4
                 /\ last.io[k + 1].t = "r" /\ last.io[k + 1].n = 100
                 /\ last.io[k + 2] = W(<<88>>)
                 /\ last.io[k + 3] = W(<<67>>)
                 /\ last.io[k + 4].t = "r" /\ last.io[k + 4].n = 100
                 /\ last.detail = <<last.io[k].d, last.io[k + 1].d, ExpectedEcho>>
                 /\ rx = <<>>

\* a mismatch whose first drain found bytes
C11_Witness ==
  /\ last.op \in EchoOps
  /\ last.res = "Desync"
  /\ last.detail[1] # <<>>
  /\ last.detail[2] # <<>>
  /\ Len(Writes(last.io)) = Len(CommandOf) + 2

(* ---- C12 ---- *)
\* C12: force_setting goes from true to false exactly in a fire(),
\* fire_sequence() or fire_continuous() call that returns normally, short
\* train or long; every other call, and every failing call, leaves it as
\* it was.
C12_ForceCleared ==
  /\ ( /\ last.op \in {"fire", "fire_sequence", "fire_continuous"}
       /\ last.res = "ok" ) => ~force_setting
  /\ (last.force0 /\ ~force_setting) =>
       /\ last.op \in {"fire", "fire_sequence", "fire_continuous"}
       /\ last.res = "ok"
  /\ ( /\ last.op \in {"fire", "fire_sequence", "fire_continuous"}
       /\ last.res # "ok" ) => force_setting = last.force0

\* a short train clears the flag
C12_Witness ==
  /\ last.op = "fire"
  /\ last.res = "ok"
  /\ last.force0
  /\ ~force_setting
  /\ Product < 500 * 1000

(* ---- C13 ---- *)
\* the required settings whose cache is empty
EmptyRequired ==
  {x \in {"Pulse height", "Pulse number", "Pulse delay"} :
     \/ x = "Pulse height" /\ current_ph = <<>>
     \/ x = "Pulse number" /\ current_pn = <<>>
     \/ x = "Pulse delay" /\ current_pd = <<>>}

\* C13: check_ready() fails exactly when the cache of the pulse height, the
\* pulse number or the pulse delay is empty, and the error then names
\* exactly those of the three that are empty, whatever the trigger-delay
\* cache holds; it changes no state and does no channel I/O.
C13_CheckReady ==
  [][ last'.op = "check_ready" =>
        /\ UNCHANGED <<firing, force_setting, current_ph, current_pn,
                       current_pd, current_td, rx, linkUp>>
        /\ last'.io = <<>>
        /\ (last'.res = "IncompleteConfiguration") = (EmptyRequired # {})
        /\ last'.res \in {"ok", "IncompleteConfiguration"}
        /\ {last'.missing[i] : i \in 1..Len(last'.missing)} = EmptyRequired
        /\ Len(last'.missing) = Cardinality(EmptyRequired) ]_vars

\* ready although no trigger delay was ever set, and not ready with one set
C13_Witness ==
  /\ last.op = "check_ready"
  /\ current_td # <<>>
  /\ current_ph # <<>>
  /\ last.res = "IncompleteConfiguration"
  /\ last.missing = <<"Pulse number", "Pulse delay">>

(* ---- C14 ---- *)
\* C14: enable_external_trig(while_fire) called with the firing flag true
\* and no override fails with the illegal-while-firing error, does no
\* channel I/O and changes nothing; in every other case, on a connection
\* that is up, it writes "A" and reads one byte, returning normally when
\* that byte is "A"; it never changes the firing flag, force_setting or a
\* cache.
C14_EnableExternalTrig ==
  [][ last'.op = "enable_external_trig" =>
        /\ UNCHANGED <<firing, force_setting, current_ph, current_pn,
                       current_pd, current_td>>
        /\ IF firing /\ ~last'.wf
             THEN /\ last'.res = "IllegalWhileFiring"
                  /\ last'.io = <<>>
                  /\ rx' = rx
             ELSE linkUp =>
                  /\ Len(last'.io) >= 2
                  /\ last'.io[1] = W(<<65>>)
                  /\ last'.io[2].t = "r" /\ last'.io[2].n = 1
                  /\ last'.res = IF last'.io[2].d = <<65>> THEN "ok" ELSE "Desync"
                  /\ last'.res = "ok" => Len(last'.io) = 2 ]_vars

\* the override used while firing
C14_Witness ==
  /\ last.op = "enable_external_trig"
  /\ last.firing0
  /\ last.wf
  /\ last.res = "ok"
  /\ firing

(* ---- C18 ---- *)
\* what a setter call may do to its own cache: cur before, new after
SetterCache(cur, new) ==
  /\ last'.res = "ok" => new = <<last'.arg>>
  /\ last'.res # "ok" => new = cur
  /\ new # cur =>
       /\ last'.res = "ok"
       /\ last'.io # <<>>
       /\ last'.io[Len(last'.io)].t = "r"
       /\ last'.io[Len(last'.io)].d = Encoded(last'.op, last'.arg).buffer_check

\* C18: a plain setter changes its cache only in a call whose send ended
\* with the echo verified, and then to the requested value; a call that
\* fails (invalid parameter, buffer not clear, illegal while firing, desync,
\* lost connection) leaves that cache as it was; the other caches, the
\* firing flag and force_setting never change; and a call that fails with
\* invalid-parameter or illegal-while-firing does no channel I/O.
C18_SetterCache ==
  [][ last'.op \in Setters =>
        /\ UNCHANGED <<firing, force_setting>>
        /\ last'.op = "set_pulse_height" =>
             /\ SetterCache(current_ph, current_ph')
             /\ UNCHANGED <<current_pn, current_pd, current_td>>
        /\ last'.op = "set_pulse_number" =>
             /\ SetterCache(current_pn, current_pn')
             /\ UNCHANGED <<current_ph, current_pd, current_td>>
        /\ last'.op = "set_pulse_delay" =>
             /\ SetterCache(current_pd, current_pd')
             /\ UNCHANGED <<current_ph, current_pn, current_td>>
        /\ last'.op = "set_trigger_delay" =>
             /\ SetterCache(current_td, current_td')
             /\ UNCHANGED <<current_ph, current_pn, current_pd>>
        /\ last'.res \in {"InvalidParameter", "IllegalWhileFiring"} =>
             last'.io = <<>> /\ rx' = rx ]_vars

\* a desync left the old pulse delay in the cache
C18_Witness ==
  /\ last.op = "set_pulse_delay"
  /\ last.res = "Desync"
  /\ current_pd # <<>>
  /\ current_pd # <<last.arg>>

(* ---- C19 ---- *)
\* one of the three required caches is empty
SomeRequiredEmpty ==
  current_ph = <<>> \/ current_pn = <<>> \/ current_pd = <<>>

\* C19 as stated: fire() and fire_sequence() write "g" only with the three
\* required caches non-empty; with one of them empty the call fails with
\* the incomplete-configuration error, writes nothing and does not set the
\* firing flag (stated for a connection that is up).
C19_AsStated ==
  (last.op \in {"fire", "fire_sequence"} /\ SomeRequiredEmpty /\ linkUp) =>
    /\ last.res = "IncompleteConfiguration"
    /\ Writes(last.io) = <<>>
    /\ firing => last.firing0

\* C19 amended: fire() and fire_sequence() write "g" only with the three
\* required caches non-empty; with one of them empty the call fails
\* before any write and does not set the firing flag.  The failure is the
\* incomplete-configuration error, except that fire() without override,
\* called with the flag true, fails with the already-firing error when
\* its re-entry read holds no end marker, and that a read on a lost
\* connection raises the serial error.
C19_FireNeedsSettings ==
  last.op \in {"fire", "fire_sequence"} =>
    /\ Writes(last.io) # <<>> => ~SomeRequiredEmpty
    /\ SomeRequiredEmpty =>
         /\ Writes(last.io) = <<>>
         /\ firing => last.firing0
         /\ last.res =
              IF last.op = "fire" /\ last.firing0 /\ ~last.wf
                THEN IF ~linkUp THEN "SerialError"
                     ELSE IF SawMarkerFirst THEN "IncompleteConfiguration"
                     ELSE "AlreadyFiring"
                ELSE "IncompleteConfiguration"

\* fire() saw the end marker and then found a setting missing
C19_Witness ==
  /\ last.op = "fire"
  /\ SomeRequiredEmpty
  /\ last.firing0
  /\ SawMarkerFirst
  /\ last.res = "IncompleteConfiguration"
  /\ ~firing

(* ---- C20 ---- *)
\* C20: while the firing flag is true and an end marker waits in the
\* receive buffer, no operation other than stop() takes the marker out of
\* the buffer and leaves the flag true, unless it is a firing-family call
\* whose re-entry check saw the marker, cleared the flag and started a new
\* train; so the marker stays for a later check_firing() to find.
C20_MarkerNotLost ==
  [][ ( /\ firing
        /\ Contains(rx, buffer_end_sequence)
        /\ last'.op # "stop"
        /\ ~ ( /\ last'.op \in {"fire", "fire_continuous", "trigger_single"}
               /\ ~last'.wf
               /\ last'.io # <<>>
               /\ last'.io[1].t = "r"
               /\ Contains(last'.io[1].d, buffer_end_sequence) ) ) =>
      (Contains(rx', buffer_end_sequence) \/ ~firing') ]_vars

(* ---- C15 ---- *)
\* every byte of every unit of a command is a byte
BytesInRange(command) ==
  \A i \in 1..Len(command) : \A j \in 1..Len(command[i]) :
    command[i][j] \in 0..255

\* C15: for every in-bound input (pulse height and pulse width 0..16383,
\* trigger delay 0..1275, pulse delay 0..256.02 ms) the codec returns a
\* command, and every byte of it, payload bytes included, is in 0..255.
C15_PayloadBytes ==
  ( /\ codec.st = "done"
    /\ \/ codec.fn \in {"pulse_height", "pulse_width"} /\ codec.par \in 0..16383
       \/ codec.fn = "trigger_delay" /\ codec.par \in 0..1275
       \/ codec.fn = "pulse_delay" /\ codec.par \in 0..256020 ) =>
    /\ codec.out.err = "ok"
    /\ codec.out.command # <<>>
    /\ BytesInRange(codec.out.command)

(* ---- C16 ---- *)
\* C16: for every pulse height h in 0..16383, command_pulse_height(h) is the
\* three units "L" + chr(hi), "M" + chr(lo), "P" with hi * 256 + lo = h,
\* and its expected echo is "LMP".
C16_PulseHeight ==
  ( /\ codec.st = "done"
    /\ codec.fn = "pulse_height"
    /\ codec.par \in 0..16383 ) =>
    LET c == codec.out.command
    IN /\ codec.out.err = "ok"
       /\ Len(c) = 3
       /\ Len(c[1]) = 2 /\ c[1][1] = 76
       /\ Len(c[2]) = 2 /\ c[2][1] = 77
       /\ c[3] = <<80>>
       /\ c[1][2] \in 0..255
       /\ c[2][2] \in 0..255
       /\ c[1][2] * 256 + c[2][2] = codec.par
       /\ codec.out.buffer_check = <<76, 77, 80>>

\* the largest pulse height: hi = 63, lo = 255
C16_Witness ==
  /\ codec.st = "done"
  /\ codec.fn = "pulse_height"
  /\ codec.par = 16383
  /\ codec.out.command = << <<76, 63>>, <<77, 255>>, <<80>> >>

(* ---- C17 ---- *)
\* the maxima as the specification states them (delays in the model's units)
StatedMax(fn) ==
  CASE fn = "pulse_height" -> 16383
    [] fn = "pulse_width" -> 16383
    [] fn = "pulse_number" -> 65025
    [] fn = "pulse_delay" -> 256020
    [] fn = "trigger_delay" -> 1275
    [] fn = "fibre_delay" -> 1275

\* C17: every codec function fails with the invalid-parameter error, and
\* returns no command, for every input below 0 or above its maximum; for
\* the pulse number and the fibre delay the external lookup is not called
\* on such an input.
C17_OutOfBound ==
  ( /\ codec.st = "done"
    /\ (codec.par < 0 \/ codec.par > StatedMax(codec.fn)) ) =>
    /\ codec.out.err = "InvalidParameter"
    /\ codec.out.command = <<>>
    /\ codec.out.buffer_check = <<>>
    /\ ~codec.out.lookup

\* the pulse number just above the bound
C17_Witness ==
  /\ codec.st = "done"
  /\ codec.fn = "pulse_number"
  /\ codec.par = 65026
  /\ codec.out.err = "InvalidParameter"
  /\ ~codec.out.lookup

====
